---- MODULE Spec2Model ----
(***************************************************************************)
(* Model of blockchain/audit_logger.py: the AuditLogger client (its        *)
(* construction-time authorization gate, _send_transaction, the two log    *)
(* calls and the two readers) running as several worker processes against  *)
(* one ledger.  The ledger, its transaction pool and the AuditLogger       *)
(* contract are not part of the Python sources; they are modelled from the *)
(* specification (sections 4.2, 4.5, 5 and 6).                             *)
(***************************************************************************)
EXTENDS Integers, Sequences, FiniteSets, TLC

\* ---------------------------------------------------------------- bounds
MaxCalls == 2        \* transactions started: write calls (log_*) of all
                     \* processes and transactions made outside the client
MaxStored == 3       \* records a node holds when the readers start

\* ------------------------------------------------------------ identities
Procs == {"w1", "w2"}

\* An address is a sequence of characters; letters have a case.
AddrA == <<"a", "B">>
AddrC == <<"C", "d">>
Addrs == {AddrA, AddrC}
\* forms in which the contract's owner() may be returned
OwnerForms == {<<"A", "b">>, <<"e", "F">>}

LowerChar(c) ==
    CASE c = "A" -> "a"
      [] c = "B" -> "b"
      [] c = "C" -> "c"
      [] c = "D" -> "d"
      [] c = "E" -> "e"
      [] c = "F" -> "f"
      [] OTHER -> c

\* str.lower()
Lower(s) == [i \in DOMAIN s |-> LowerChar(s[i])]

\* ----------------------------------------------------------- NodeStatus
StatusNames == {"Normal", "Scaling", "Alert"}

\* int(status) for a NodeStatus member
StatusInt(name) ==
    CASE name = "Normal" -> 0
      [] name = "Scaling" -> 1
      [] name = "Alert" -> 2

\* variant: the members numbered from 1, as enum.auto() would number them
StatusNameFromOne(i) ==
    CASE i = 1 -> "Normal"
      [] i = 2 -> "Scaling"
      [] i = 3 -> "Alert"
      [] OTHER -> "ValueError"

\* NodeStatus(i).name ; "ValueError" when i is not a member's value
StatusName(i) ==
    CASE i = 0 -> "Normal"
      [] i = 1 -> "Scaling"
      [] i = 2 -> "Alert"
      [] OTHER -> "ValueError"

\* ------------------------------------------------------------ the calls
NodeIds == {"n1", "n2"}

\* prices the gateway's gas_price query may answer
GasPrices == {1, 2}

\* arguments of log_node_metrics the workers draw from
MetricsArgs ==
    { [node_id |-> "n1", memory_usage |-> 5, cpu_load |-> 0,
       allocated_memory |-> 9, status |-> "Normal"],
      [node_id |-> "n1", memory_usage |-> 7, cpu_load |-> 100,
       allocated_memory |-> 8, status |-> "Scaling"] }

\* arguments of log_scaling_action the workers draw from
ScalingArgs ==
    { [node_id |-> "n1", action |-> "scale_up", reason |-> "cpu"] }

\* variant: memory_usage and cpu_load passed in each other's place
LogNodeMetricsFunctionSwapped(m) ==
    [fn |-> "logNodeMetrics",
     args |-> <<m.node_id, m.cpu_load, m.memory_usage, m.allocated_memory,
                StatusInt(m.status)>>]

\* self.contract.functions.logNodeMetrics(node_id, memory_usage, cpu_load,
\*                                        allocated_memory, int(status))
LogNodeMetricsFunction(m) ==
    [fn |-> "logNodeMetrics",
     args |-> <<m.node_id, m.memory_usage, m.cpu_load, m.allocated_memory,
                StatusInt(m.status)>>]

\* self.contract.functions.logScalingAction(node_id, action, reason)
LogScalingActionFunction(s) ==
    [fn |-> "logScalingAction", args |-> <<s.node_id, s.action, s.reason>>]

NoFunction == [fn |-> "none", args |-> <<>>]

\* ----------------------------------------------------------------- state
VARIABLES
    authorizedLoggers,   \* contract: addresses marked true in the registry
    owner,               \* contract: owner()
    txCount,             \* ledger: confirmed transactions per address
    pool,                \* ledger: broadcast transactions not yet included
    receipts,            \* ledger: included transactions with their status
    nodeMetricsHistory,  \* contract: per node, the stored tuples, oldest first
    scalingActions,      \* contract: scaling actions stored
    blockTime,           \* ledger: timestamp of the next block
    gasPrice,            \* ledger: the gas price the gateway suggests
    lastWriteTx,         \* history: transaction that wrote a node's latest record
    pc,                  \* per process: position in the client code
    address,             \* per process: self.address
    function,            \* per process: the contract function of the call
    nonce,               \* per process: local nonce of _send_transaction
    tx_hash,             \* per process: local tx_hash (the transaction sent)
    receipt,             \* per process: receipt['status'], -1 while none
    exc,                 \* per process: exception in flight / last raised
    phase,               \* history: "pre" or "post" broadcast when exc arose
    outcome,             \* per process: how the last call ended
    readResult,          \* per process: what the last reader call returned
    countAtFetch,        \* history: confirmed count when the nonce was fetched
    countAtSend,         \* history: confirmed count when the call broadcast
    prevOk,              \* history: highest nonce confirmed to a caller of this
                         \*          identity before the current call started
    maxOk,               \* history: highest nonce returned as success, per address
    broadcasts,          \* history: broadcasts made by the current call
    everBroadcast,       \* history: has the process ever broadcast
    authAtCtor,          \* history: was the address authorized when constructed
    calls,               \* history: transactions started (see MaxCalls)
    submitted            \* history: the arguments the caller passed to log_*

ledgerVars == <<txCount, pool, receipts, nodeMetricsHistory, scalingActions,
                blockTime, gasPrice, lastWriteTx>>
contractVars == <<authorizedLoggers, owner>>
procVars == <<pc, address, function, nonce, tx_hash, receipt, exc, phase,
              outcome, readResult>>
histVars == <<countAtFetch, countAtSend, prevOk, maxOk, broadcasts,
              everBroadcast, authAtCtor, calls, submitted>>
vars == <<authorizedLoggers, owner, txCount, pool, receipts,
          nodeMetricsHistory, scalingActions, blockTime, gasPrice,
          lastWriteTx, pc, address, function, nonce, tx_hash, receipt, exc,
          phase, outcome, readResult, countAtFetch, countAtSend, prevOk,
          maxOk, broadcasts, everBroadcast, authAtCtor, calls, submitted>>

NoTx == [sender |-> <<>>, nonce |-> -1, function |-> NoFunction,
         gasPrice |-> 0]
NoRead == [op |-> "none"]
NoArgs == [node_id |-> "none"]

\* ------------------------------------------- the contract (from the spec)
\* write-time check of the contract: registry entry or owner
ContractAccepts(sender) ==
    sender \in authorizedLoggers \/ Lower(sender) = Lower(owner)

\* the tuple logNodeMetrics stores:
\* (nodeId, timestamp, memoryUsage, cpuLoad, allocatedMemory, status, scaleAction)
StoredMetrics(args, ts) ==
    <<args[1], ts, args[2], args[3], args[4], args[5], "">>

\* reply of getLatestNodeMetrics(nodeId).call(): the latest tuple, or the
\* empty-tuple sentinel when the node has no record
GetLatestNodeMetricsReply(node_id) ==
    LET h == nodeMetricsHistory[node_id]
    IN IF Len(h) = 0 THEN <<>> ELSE h[Len(h)]

Min(a, b) == IF a <= b THEN a ELSE b

\* reply of getNodeMetricsHistory(nodeId, start, count).call(): the stored
\* tuples from start, at most count of them, in storage order
GetNodeMetricsHistoryReply(node_id, start_index, count) ==
    LET h == nodeMetricsHistory[node_id]
    IN SubSeq(h, start_index + 1, Min(Len(h), start_index + count))

Init ==
    /\ authorizedLoggers \in SUBSET {AddrA}
    /\ owner \in OwnerForms
    /\ txCount = [a \in Addrs |-> 0]
    /\ pool = {}
    /\ receipts = {}
    /\ nodeMetricsHistory = [n \in NodeIds |-> <<>>]
    /\ scalingActions = <<>>
    /\ blockTime = 1
    /\ gasPrice \in GasPrices
    /\ lastWriteTx = [n \in NodeIds |-> NoTx]
    /\ pc = [p \in Procs |-> "new"]
    /\ address \in {f \in [Procs -> Addrs] : f["w1"] = AddrA}
    /\ function = [p \in Procs |-> NoFunction]
    /\ nonce = [p \in Procs |-> -1]
    /\ tx_hash = [p \in Procs |-> NoTx]
    /\ receipt = [p \in Procs |-> -1]
    /\ exc = [p \in Procs |-> "none"]
    /\ phase = [p \in Procs |-> "none"]
    /\ outcome = [p \in Procs |-> "none"]
    /\ readResult = [p \in Procs |-> NoRead]
    /\ countAtFetch = [p \in Procs |-> -1]
    /\ countAtSend = [p \in Procs |-> -1]
    /\ prevOk = [p \in Procs |-> -1]
    /\ maxOk = [a \in Addrs |-> -1]
    /\ broadcasts = [p \in Procs |-> 0]
    /\ everBroadcast = [p \in Procs |-> FALSE]
    /\ authAtCtor = [p \in Procs |-> FALSE]
    /\ calls = 0
    /\ submitted = [p \in Procs |-> NoArgs]

\* ------------------------------------------------ construction (the gate)
\* variant: the owner comparison inverted (== where != is meant)
CheckAuthorizationInverted(addr, is_authorized, own) ==
    is_authorized \/ Lower(addr) # Lower(own)

\* variant: the addresses compared as given, without .lower()
CheckAuthorizationCaseSensitive(addr, is_authorized, own) ==
    is_authorized \/ addr = own

\* _check_authorization, lines 60-65: passes when the registry entry is true,
\* or else when the address equals owner() compared in lower case
CheckAuthorizationPasses(addr, is_authorized, own) ==
    is_authorized \/ Lower(addr) = Lower(own)

\* variant: the except clause of _check_authorization logs the error and
\* does not re-raise it, so a failed query lets construction complete
ConstructFailsOpen(p) ==
    /\ pc[p] = "new"
    /\ pc' = [pc EXCEPT ![p] = "ready"]
    /\ exc' = [exc EXCEPT ![p] = "none"]
    /\ outcome' = [outcome EXCEPT ![p] = "ConnectionError"]
    /\ authAtCtor' = [authAtCtor EXCEPT ![p] =
                        address[p] \in authorizedLoggers
                        \/ Lower(address[p]) = Lower(owner)]
    /\ UNCHANGED <<ledgerVars, contractVars, address, function, nonce,
                   tx_hash, receipt, phase, readResult, countAtFetch,
                   countAtSend, prevOk, maxOk, broadcasts,
                   everBroadcast, calls, submitted>>

\* AuditLogger.__init__ ending in _check_authorization.  A failed query
\* raises (connection error): the authorizedLoggers query at line 60, or the
\* owner query at line 63, which is made only when the registry entry is
\* false.  An unauthorized address raises ValueError.  Either way __init__
\* raises and the caller holds no client object.
Construct(p) ==
    /\ pc[p] = "new"
    /\ \E auth_up \in BOOLEAN, owner_up \in BOOLEAN :
         LET is_authorized == address[p] \in authorizedLoggers
             failed == ~auth_up \/ (~is_authorized /\ ~owner_up)
             passes == CheckAuthorizationPasses(address[p], is_authorized, owner)
         IN /\ pc' = [pc EXCEPT ![p] =
                        IF ~failed /\ passes THEN "ready" ELSE "dead"]
            /\ exc' = [exc EXCEPT ![p] =
                        IF failed THEN "ConnectionError"
                        ELSE IF passes THEN "none" ELSE "ValueError"]
            /\ outcome' = [outcome EXCEPT ![p] =
                        IF failed THEN "ConnectionError"
                        ELSE IF passes THEN "constructed" ELSE "ValueError"]
            /\ authAtCtor' = [authAtCtor EXCEPT ![p] =
                        address[p] \in authorizedLoggers
                        \/ Lower(address[p]) = Lower(owner)]
    /\ UNCHANGED <<ledgerVars, contractVars, address, function, nonce,
                   tx_hash, receipt, phase, readResult, countAtFetch,
                   countAtSend, prevOk, maxOk, broadcasts,
                   everBroadcast, calls, submitted>>

\* ------------------------------------------------------- the write calls
\* entry of _send_transaction(function): fresh locals
EnterSend(p, f, a) ==
    /\ pc[p] = "ready"
    /\ calls < MaxCalls
    /\ calls' = calls + 1
    /\ submitted' = [submitted EXCEPT ![p] = a]
    /\ pc' = [pc EXCEPT ![p] = "nonce"]
    /\ function' = [function EXCEPT ![p] = f]
    /\ tx_hash' = [tx_hash EXCEPT ![p] = NoTx]
    /\ receipt' = [receipt EXCEPT ![p] = -1]
    /\ exc' = [exc EXCEPT ![p] = "none"]
    /\ phase' = [phase EXCEPT ![p] = "none"]
    /\ outcome' = [outcome EXCEPT ![p] = "none"]
    /\ countAtFetch' = [countAtFetch EXCEPT ![p] = -1]
    /\ countAtSend' = [countAtSend EXCEPT ![p] = -1]
    /\ broadcasts' = [broadcasts EXCEPT ![p] = 0]
    /\ prevOk' = [prevOk EXCEPT ![p] = maxOk[address[p]]]
    /\ UNCHANGED <<ledgerVars, contractVars, address, nonce, maxOk,
                   readResult, everBroadcast, authAtCtor>>

\* log_node_metrics(node_id, memory_usage, cpu_load, allocated_memory, status)
LogNodeMetrics(p) ==
    \E m \in MetricsArgs : EnterSend(p, LogNodeMetricsFunction(m), m)

\* log_scaling_action(node_id, action, reason)
LogScalingAction(p) ==
    \E s \in ScalingArgs : EnterSend(p, LogScalingActionFunction(s), s)

\* an exception raised inside the try block of _send_transaction
Raise(p, e, ph) ==
    /\ pc' = [pc EXCEPT ![p] = "except"]
    /\ exc' = [exc EXCEPT ![p] = e]
    /\ phase' = [phase EXCEPT ![p] = ph]

\* variant: get_transaction_count(self.address, 'pending'), which counts
\* the identity's transactions waiting in the pool as well
FetchedNoncePending(p) ==
    txCount[address[p]]
      + Cardinality({t \in pool : t.sender = address[p]})

\* variant: a nonce that is never refreshed from the ledger
FetchedNonceFixed(p) == 0

\* variant: the last confirmed nonce instead of the confirmed count
FetchedNonceLastUsed(p) ==
    IF txCount[address[p]] > 0 THEN txCount[address[p]] - 1 ELSE 0

\* line 83: the nonce the call will use
FetchedNonce(p) == txCount[address[p]]

\* line 83: nonce = self.web3.eth.get_transaction_count(self.address)
FetchNonce(p) ==
    /\ pc[p] = "nonce"
    /\ \/ /\ nonce' = [nonce EXCEPT ![p] = FetchedNonce(p)]
          /\ countAtFetch' = [countAtFetch EXCEPT ![p] = txCount[address[p]]]
          /\ pc' = [pc EXCEPT ![p] = "send"]
          /\ UNCHANGED <<exc, phase>>
       \/ /\ Raise(p, "ConnectionError", "pre")
          /\ UNCHANGED <<nonce, countAtFetch>>
    /\ UNCHANGED <<ledgerVars, contractVars, address, function, tx_hash,
                   receipt, outcome, readResult, countAtSend, prevOk, maxOk,
                   broadcasts, everBroadcast, authAtCtor, calls, submitted>>

\* the signed transaction of the call; its hash is a function of it
SignedTxn(p) ==
    [sender |-> address[p], nonce |-> nonce[p], function |-> function[p],
     gasPrice |-> gasPrice]

\* variant: the transaction is signed and sent before the gateway is asked
\* for the chain id and the gas price, and that query then fails
SendRawTransactionBeforeBuild(p) ==
    /\ pc[p] = "send"
    /\ pool' = pool \cup {SignedTxn(p)}
    /\ Raise(p, "ConnectionError", "pre")
    /\ UNCHANGED <<txCount, receipts, nodeMetricsHistory, scalingActions,
                   blockTime, gasPrice, lastWriteTx, contractVars, address,
                   function, nonce, tx_hash, receipt, outcome, readResult,
                   countAtFetch, countAtSend, prevOk, maxOk, broadcasts,
                   everBroadcast, authAtCtor, calls, submitted>>

\* lines 86-95: chain_id and gas_price queries and build_transaction (a
\* failure here is before any broadcast), signing, then
\* tx_hash = self.web3.eth.send_raw_transaction(...)
\* The node refuses a nonce already confirmed and a transaction it already
\* knows; a different transaction for a pending nonce replaces the pending
\* one when it pays a higher gas price and is refused (underpriced) otherwise.
SendRawTransaction(p) ==
    /\ pc[p] = "send"
    /\ LET tx == SignedTxn(p)
           rivals == {t \in pool : t.sender = tx.sender /\ t.nonce = tx.nonce}
           sent == /\ broadcasts' = [broadcasts EXCEPT ![p] = @ + 1]
                   /\ everBroadcast' = [everBroadcast EXCEPT ![p] = TRUE]
                   /\ countAtSend' =
                         [countAtSend EXCEPT ![p] = txCount[address[p]]]
       IN \/ /\ Raise(p, "ConnectionError", "pre")
             /\ UNCHANGED <<pool, tx_hash, broadcasts, everBroadcast,
                            countAtSend>>
          \/ /\ sent
             /\ Raise(p, "ConnectionError", "post")
             /\ UNCHANGED <<pool, tx_hash>>
          \/ /\ sent
             /\ tx.nonce < txCount[tx.sender]
             /\ Raise(p, "ValueError", "post")
             /\ UNCHANGED <<pool, tx_hash>>
          \/ /\ sent
             /\ tx.nonce >= txCount[tx.sender]
             /\ \E t \in rivals : t.gasPrice >= tx.gasPrice
             /\ Raise(p, "ValueError", "post")
             /\ UNCHANGED <<pool, tx_hash>>
          \/ /\ sent
             /\ tx.nonce >= txCount[tx.sender]
             /\ \A t \in rivals : t.gasPrice < tx.gasPrice
             /\ pool' = (pool \ rivals) \cup {tx}
             /\ tx_hash' = [tx_hash EXCEPT ![p] = tx]
             /\ pc' = [pc EXCEPT ![p] = "wait"]
             /\ UNCHANGED <<exc, phase>>
    /\ UNCHANGED <<txCount, receipts, nodeMetricsHistory, scalingActions,
                   blockTime, gasPrice, lastWriteTx, contractVars, address,
                   function,
                   nonce, receipt, outcome, readResult, countAtFetch, prevOk,
                   maxOk, authAtCtor, calls, submitted>>

Included(tx) == \E r \in receipts : r.tx = tx
StatusOf(tx) == (CHOOSE r \in receipts : r.tx = tx).status

\* variant: any receipt counts as success (if receipt: ...)
ClassifyReceiptAnyReceipt(status) == IF status # -1 THEN "hash" ELSE "Exception"

\* lines 100-105: status 1 returns the hash, anything else raises Exception
ClassifyReceipt(status) == IF status = 1 THEN "hash" ELSE "Exception"

Max(a, b) == IF a >= b THEN a ELSE b

\* the call is over: the locals of _send_transaction are gone
Return(p, result) ==
    /\ pc' = [pc EXCEPT ![p] = "ready"]
    /\ outcome' = [outcome EXCEPT ![p] = result]
    /\ nonce' = [nonce EXCEPT ![p] = -1]
    /\ countAtFetch' = [countAtFetch EXCEPT ![p] = -1]
    /\ countAtSend' = [countAtSend EXCEPT ![p] = -1]
    /\ prevOk' = [prevOk EXCEPT ![p] = -1]

\* variant: wait_for_transaction_receipt(tx_hash, timeout=None), which polls
\* until a receipt exists
WaitForTransactionReceiptNoTimeout(p) ==
    /\ pc[p] = "wait"
    /\ Included(tx_hash[p])
    /\ receipt' = [receipt EXCEPT ![p] = StatusOf(tx_hash[p])]
    /\ IF ClassifyReceipt(StatusOf(tx_hash[p])) = "hash"
       THEN /\ Return(p, "hash")
            /\ maxOk' = [maxOk EXCEPT ![address[p]] = Max(@, nonce[p])]
            /\ UNCHANGED <<exc, phase>>
       ELSE /\ Raise(p, "Exception", "post")
            /\ UNCHANGED <<outcome, nonce, countAtFetch, countAtSend,
                           prevOk, maxOk>>
    /\ UNCHANGED <<ledgerVars, contractVars, address, function, tx_hash,
                   readResult, broadcasts, everBroadcast, authAtCtor,
                   calls, submitted>>

\* variant: when no receipt has arrived the transaction is sent again
WaitForTransactionReceiptResends(p) ==
    /\ pc[p] = "wait"
    /\ ~Included(tx_hash[p])
    /\ pc' = [pc EXCEPT ![p] = "send"]
    /\ UNCHANGED <<ledgerVars, contractVars, address, function, nonce,
                   tx_hash, receipt, exc, phase, outcome, readResult,
                   histVars>>

\* lines 98-105: receipt = self.web3.eth.wait_for_transaction_receipt(tx_hash)
\* returns the receipt once the transaction is included and raises
\* TimeExhausted when the timeout elapses first; then the receipt's status
\* decides between returning the hash and raising
WaitForTransactionReceipt(p) ==
    /\ pc[p] = "wait"
    /\ \/ /\ Included(tx_hash[p])
          /\ receipt' = [receipt EXCEPT ![p] = StatusOf(tx_hash[p])]
          /\ IF ClassifyReceipt(StatusOf(tx_hash[p])) = "hash"
             THEN /\ Return(p, "hash")
                  /\ maxOk' = [maxOk EXCEPT ![address[p]] = Max(@, nonce[p])]
                  /\ UNCHANGED <<exc, phase>>
             ELSE /\ Raise(p, "Exception", "post")
                  /\ UNCHANGED <<outcome, nonce, countAtFetch, countAtSend,
                                 prevOk, maxOk>>
       \/ /\ ~Included(tx_hash[p])
          /\ Raise(p, "TimeExhausted", "post")
          /\ UNCHANGED <<receipt, outcome, nonce, countAtFetch, countAtSend,
                         prevOk, maxOk>>
       \/ /\ Raise(p, "ConnectionError", "post")
          /\ UNCHANGED <<receipt, outcome, nonce, countAtFetch, countAtSend,
                         prevOk, maxOk>>
    /\ UNCHANGED <<ledgerVars, contractVars, address, function, tx_hash,
                   readResult, broadcasts, everBroadcast, authAtCtor,
                   calls, submitted>>

\* variant: the handler logs the error and returns the hash it has
HandleExceptionSwallows(p) ==
    /\ pc[p] = "except"
    /\ Return(p, "hash")
    /\ UNCHANGED <<ledgerVars, contractVars, address, function, tx_hash,
                   receipt, exc, phase, readResult, maxOk, broadcasts,
                   everBroadcast, authAtCtor, calls, submitted>>

\* variant: the handler sends the transaction again
HandleExceptionRetries(p) ==
    /\ pc[p] = "except"
    /\ pc' = [pc EXCEPT ![p] = "send"]
    /\ UNCHANGED <<ledgerVars, contractVars, address, function, nonce,
                   tx_hash, receipt, exc, phase, outcome, readResult,
                   histVars>>

\* lines 107-112: both handlers log the error and re-raise it unchanged;
\* the caller gets the exception and no hash
HandleException(p) ==
    /\ pc[p] = "except"
    /\ Return(p, exc[p])
    /\ function' = [function EXCEPT ![p] = NoFunction]
    /\ tx_hash' = [tx_hash EXCEPT ![p] = NoTx]
    /\ receipt' = [receipt EXCEPT ![p] = -1]
    /\ exc' = [exc EXCEPT ![p] = "none"]
    /\ phase' = [phase EXCEPT ![p] = "none"]
    /\ broadcasts' = [broadcasts EXCEPT ![p] = 0]
    /\ submitted' = [submitted EXCEPT ![p] = NoArgs]
    /\ UNCHANGED <<ledgerVars, contractVars, address, readResult, maxOk,
                   everBroadcast, authAtCtor, calls>>

\* ------------------------------------------------------------ the readers
\* variant: a tuple that is too short yields a record of defaults
ConvertMetricsDefaulting(metrics) ==
    IF Len(metrics) < 7
    THEN [raised |-> "none", nodeId |-> "", timestamp |-> 0,
          memoryUsage |-> 0, cpuLoad |-> 0, allocatedMemory |-> 0,
          status |-> "Normal", scaleAction |-> ""]
    ELSE [raised |-> "none",
          nodeId |-> metrics[1],
          timestamp |-> metrics[2],
          memoryUsage |-> metrics[3],
          cpuLoad |-> metrics[4],
          allocatedMemory |-> metrics[5],
          status |-> StatusName(metrics[6]),
          scaleAction |-> metrics[7]]

\* lines 182-190 (and 218-227): the dictionary built from one ledger tuple.
\* Indexing a tuple that is too short raises IndexError; NodeStatus() of an
\* unknown integer raises ValueError.
ConvertMetrics(metrics) ==
    IF Len(metrics) < 7 THEN [raised |-> "IndexError"]
    ELSE IF StatusName(metrics[6]) = "ValueError" THEN [raised |-> "ValueError"]
    ELSE [raised |-> "none",
          nodeId |-> metrics[1],
          timestamp |-> metrics[2],
          memoryUsage |-> metrics[3],
          cpuLoad |-> metrics[4],
          allocatedMemory |-> metrics[5],
          status |-> StatusName(metrics[6]),
          scaleAction |-> metrics[7]]

\* variant: the query is made with .transact() through the signing path,
\* so that reading fetches a nonce and broadcasts a transaction
GetLatestNodeMetricsTransacts(p) ==
    /\ pc[p] = "ready"
    /\ pc' = [pc EXCEPT ![p] = "read"]
    /\ nonce' = [nonce EXCEPT ![p] = txCount[address[p]]]
    /\ pool' = pool \cup {[sender |-> address[p],
                           nonce |-> txCount[address[p]],
                           function |-> NoFunction, gasPrice |-> gasPrice]}
    /\ \E node_id \in NodeIds :
         readResult' = [readResult EXCEPT ![p] =
            [op |-> "latest", node |-> node_id,
             held |-> Len(nodeMetricsHistory[node_id]),
             src |-> lastWriteTx[node_id],
             ret |-> ConvertMetrics(GetLatestNodeMetricsReply(node_id))]]
    /\ UNCHANGED <<txCount, receipts, nodeMetricsHistory, scalingActions,
                   blockTime, gasPrice, lastWriteTx, contractVars, address,
                   function, tx_hash, receipt, exc, phase, outcome, histVars>>

\* lines 178-198: get_latest_node_metrics(node_id); the except clause
\* re-raises whatever the query or the conversion raised
GetLatestNodeMetrics(p) ==
    /\ pc[p] = "ready"
    /\ pc' = [pc EXCEPT ![p] = "read"]
    /\ \E node_id \in NodeIds, rpc_up \in BOOLEAN :
         readResult' = [readResult EXCEPT ![p] =
            [op |-> "latest", node |-> node_id,
             held |-> Len(nodeMetricsHistory[node_id]),
             src |-> lastWriteTx[node_id],
             ret |-> IF rpc_up
                     THEN ConvertMetrics(GetLatestNodeMetricsReply(node_id))
                     ELSE [raised |-> "ConnectionError"]]]
    /\ UNCHANGED <<ledgerVars, contractVars, address, function, nonce,
                   tx_hash, receipt, exc, phase, outcome, histVars>>

RECURSIVE ConvertLoop(_, _, _)
\* lines 216-228: the loop over metrics_list, appending one entry per tuple;
\* an exception inside the loop abandons the result
ConvertLoop(metrics_list, i, result) ==
    IF i > Len(metrics_list) THEN [raised |-> "none", list |-> result]
    ELSE LET entry == ConvertMetrics(metrics_list[i])
         IN IF entry.raised # "none" THEN [raised |-> entry.raised]
            ELSE ConvertLoop(metrics_list, i + 1, Append(result, entry))

RECURSIVE ConvertLoopNewestFirst(_, _, _)
\* variant: each entry is put at the front of the result
ConvertLoopNewestFirst(metrics_list, i, result) ==
    IF i > Len(metrics_list) THEN [raised |-> "none", list |-> result]
    ELSE LET entry == ConvertMetrics(metrics_list[i])
         IN IF entry.raised # "none" THEN [raised |-> entry.raised]
            ELSE ConvertLoopNewestFirst(metrics_list, i + 1,
                                        <<entry>> \o result)

ConvertHistoryNewestFirst(metrics_list) ==
    ConvertLoopNewestFirst(metrics_list, 1, <<>>)

\* lines 216-230
ConvertHistory(metrics_list) == ConvertLoop(metrics_list, 1, <<>>)

HistoryStarts == {0, 1}
HistoryCounts == {2, 10}

\* lines 212-233: get_node_metrics_history(node_id, start_index, count)
GetNodeMetricsHistory(p) ==
    /\ pc[p] = "ready"
    /\ pc' = [pc EXCEPT ![p] = "read"]
    /\ \E node_id \in NodeIds, start_index \in HistoryStarts,
          count \in HistoryCounts, rpc_up \in BOOLEAN :
         readResult' = [readResult EXCEPT ![p] =
            [op |-> "history", node |-> node_id,
             start |-> start_index, count |-> count,
             stored |-> nodeMetricsHistory[node_id],
             ret |-> IF rpc_up
                     THEN ConvertHistory(GetNodeMetricsHistoryReply(
                                            node_id, start_index, count))
                     ELSE [raised |-> "ConnectionError"]]]
    /\ UNCHANGED <<ledgerVars, contractVars, address, function, nonce,
                   tx_hash, receipt, exc, phase, outcome, histVars>>

\* the caller has consumed what the reader returned or raised
ReaderReturns(p) ==
    /\ pc[p] = "read"
    /\ pc' = [pc EXCEPT ![p] = "ready"]
    /\ readResult' = [readResult EXCEPT ![p] = NoRead]
    /\ UNCHANGED <<ledgerVars, contractVars, address, function, nonce,
                   tx_hash, receipt, exc, phase, outcome, histVars>>

\* ------------------------------------------------- the ledger (from spec)
\* transactions of a sender that can no longer be included once its
\* confirmed count is n
Stale(sender, n) == {t \in pool : t.sender = sender /\ t.nonce < n}

\* The ledger includes a pending transaction whose nonce is the sender's
\* confirmed count: exactly one transaction per nonce.  The contract runs:
\* a rejected call leaves no record and the receipt has status 0.
Include(tx) ==
    /\ tx \in pool
    /\ tx.nonce = txCount[tx.sender]
    /\ LET ok == ContractAccepts(tx.sender)
           args == tx.function.args
       IN /\ receipts' = receipts \cup {[tx |-> tx, status |-> IF ok THEN 1 ELSE 0]}
          /\ IF ok /\ tx.function.fn = "logNodeMetrics"
             THEN /\ nodeMetricsHistory' =
                       [nodeMetricsHistory EXCEPT ![args[1]] =
                           Append(@, StoredMetrics(args, blockTime))]
                  /\ lastWriteTx' = [lastWriteTx EXCEPT ![args[1]] = tx]
             ELSE UNCHANGED <<nodeMetricsHistory, lastWriteTx>>
          /\ IF ok /\ tx.function.fn = "logScalingAction"
             THEN scalingActions' = Append(scalingActions, args)
             ELSE UNCHANGED scalingActions
    /\ txCount' = [txCount EXCEPT ![tx.sender] = @ + 1]
    /\ pool' = (pool \ {tx}) \ Stale(tx.sender, tx.nonce + 1)
    /\ blockTime' = blockTime + 1
    /\ UNCHANGED <<gasPrice, contractVars, procVars, histVars>>

\* a transaction of the identity made outside the client is confirmed
ExternalTransaction(a) ==
    /\ calls < MaxCalls
    /\ \E p \in Procs : address[p] = a /\ pc[p] \notin {"new", "dead"}
    /\ calls' = calls + 1
    /\ txCount' = [txCount EXCEPT ![a] = @ + 1]
    /\ pool' = pool \ Stale(a, txCount[a] + 1)
    /\ blockTime' = blockTime + 1
    /\ UNCHANGED <<receipts, nodeMetricsHistory, scalingActions, lastWriteTx,
                   gasPrice, contractVars, procVars, countAtFetch,
                   countAtSend, prevOk, maxOk, broadcasts, everBroadcast,
                   authAtCtor, submitted>>

\* the price the gateway suggests changes; it is read by a call only when it
\* builds its transaction, so the change is taken when a call is about to
GasPriceChanges ==
    /\ \E p \in Procs : pc[p] = "send"
    /\ \E g \in GasPrices \ {gasPrice} : gasPrice' = g
    /\ UNCHANGED <<txCount, pool, receipts, nodeMetricsHistory,
                   scalingActions, blockTime, lastWriteTx, contractVars,
                   procVars, histVars>>

\* the registry's owner revokes a logger that a client was constructed with
Revoke(a) ==
    /\ a \in authorizedLoggers
    /\ \E p \in Procs : address[p] = a /\ pc[p] \notin {"new", "dead"}
    /\ authorizedLoggers' = authorizedLoggers \ {a}
    /\ UNCHANGED <<owner, ledgerVars, procVars, histVars>>

\* -------------------------------------------------------- specifications
\* The writers against the ledger: clients of one or two identities logging
\* metrics while the ledger includes, the identity transacts elsewhere and
\* the owner revokes.
Next ==
    \/ \E p \in Procs : Construct(p)
    \/ \E p \in Procs : LogNodeMetrics(p)
    \/ \E p \in Procs : FetchNonce(p)
    \/ \E p \in Procs : SendRawTransaction(p)
    \/ \E p \in Procs : WaitForTransactionReceipt(p)
    \/ \E p \in Procs : HandleException(p)
    \/ \E tx \in pool : Include(tx)
    \/ GasPriceChanges
    \/ \E a \in Addrs : ExternalTransaction(a)
    \/ \E a \in Addrs : Revoke(a)

Spec == Init /\ [][Next]_vars

\* Writers and get_latest_node_metrics together: two authorized clients of
\* one identity log metrics and scaling actions and read the latest record,
\* at a steady gas price.
InitWriteRead ==
    /\ Init
    /\ authorizedLoggers = {AddrA}
    /\ owner = <<"e", "F">>
    /\ gasPrice = 1
    /\ \A p \in Procs : address[p] = AddrA

NextWriteRead ==
    \/ \E p \in Procs : Construct(p)
    \/ \E p \in Procs : LogNodeMetrics(p)
    \/ \E p \in Procs : LogScalingAction(p)
    \/ \E p \in Procs : FetchNonce(p)
    \/ \E p \in Procs : SendRawTransaction(p)
    \/ \E p \in Procs : WaitForTransactionReceipt(p)
    \/ \E p \in Procs : HandleException(p)
    \/ \E p \in Procs : GetLatestNodeMetrics(p)
    \/ \E p \in Procs : ReaderReturns(p)
    \/ \E tx \in pool : Include(tx)

SpecWriteRead == InitWriteRead /\ [][NextWriteRead]_vars

\* The writers as running processes.  A call that has reached
\* wait_for_transaction_receipt is a thread blocked in a poll loop that
\* web3 ends after its default timeout (120 s), and an exception raised in
\* the try block is handled at once: once enabled, each of the two steps is
\* eventually taken (weak fairness).  Nothing obliges the ledger to include
\* a transaction, and nothing obliges a caller to start a call.
InitLive ==
    /\ Init
    /\ gasPrice = 1
    /\ \A p \in Procs : address[p] = AddrA

NextLive ==
    \/ \E p \in Procs : Construct(p)
    \/ \E p \in Procs : LogNodeMetrics(p)
    \/ \E p \in Procs : FetchNonce(p)
    \/ \E p \in Procs : SendRawTransaction(p)
    \/ \E p \in Procs : WaitForTransactionReceipt(p)
    \/ \E p \in Procs : HandleException(p)
    \/ \E tx \in pool : Include(tx)
    \/ \E a \in Addrs : Revoke(a)

FairLive ==
    \A p \in Procs : /\ WF_vars(WaitForTransactionReceipt(p))
                      /\ WF_vars(HandleException(p))

SpecLive == InitLive /\ [][NextLive]_vars /\ FairLive

\* The readers against a ledger that already holds records: node "n1" holds
\* up to MaxStored records written earlier, node "n2" holds none.
\* what earlier log_node_metrics calls submitted: every NodeStatus member
PriorArgs ==
    MetricsArgs \cup
    { [node_id |-> "n1", memory_usage |-> 6, cpu_load |-> 50,
       allocated_memory |-> 9, status |-> "Alert"] }

RECURSIVE PriorHistories(_)
PriorHistories(k) ==
    IF k = 0 THEN {<<>>}
    ELSE LET shorter == PriorHistories(k - 1)
         IN shorter \cup
            { Append(h, StoredMetrics(LogNodeMetricsFunction(m).args,
                                      Len(h) + 1)) :
                h \in {g \in shorter : Len(g) = k - 1}, m \in PriorArgs }

InitRead ==
    /\ authorizedLoggers = {AddrA}
    /\ owner = <<"e", "F">>
    /\ txCount = [a \in Addrs |-> 0]
    /\ pool = {}
    /\ receipts = {}
    /\ \E h \in PriorHistories(MaxStored) :
         /\ nodeMetricsHistory = [n \in NodeIds |-> IF n = "n1" THEN h ELSE <<>>]
         /\ blockTime = Len(h) + 1
    /\ gasPrice = 1
    /\ scalingActions = <<>>
    /\ lastWriteTx = [n \in NodeIds |-> NoTx]
    /\ pc = [p \in Procs |-> "new"]
    /\ address = [p \in Procs |-> AddrA]
    /\ function = [p \in Procs |-> NoFunction]
    /\ nonce = [p \in Procs |-> -1]
    /\ tx_hash = [p \in Procs |-> NoTx]
    /\ receipt = [p \in Procs |-> -1]
    /\ exc = [p \in Procs |-> "none"]
    /\ phase = [p \in Procs |-> "none"]
    /\ outcome = [p \in Procs |-> "none"]
    /\ readResult = [p \in Procs |-> NoRead]
    /\ countAtFetch = [p \in Procs |-> -1]
    /\ countAtSend = [p \in Procs |-> -1]
    /\ prevOk = [p \in Procs |-> -1]
    /\ maxOk = [a \in Addrs |-> -1]
    /\ broadcasts = [p \in Procs |-> 0]
    /\ everBroadcast = [p \in Procs |-> FALSE]
    /\ authAtCtor = [p \in Procs |-> FALSE]
    /\ calls = 0
    /\ submitted = [p \in Procs |-> NoArgs]

NextRead ==
    \/ \E p \in Procs : Construct(p)
    \/ \E p \in Procs : GetLatestNodeMetrics(p)
    \/ \E p \in Procs : GetNodeMetricsHistory(p)
    \/ \E p \in Procs : ReaderReturns(p)

SpecRead == InitRead /\ [][NextRead]_vars

TypeOK ==
    /\ authorizedLoggers \subseteq Addrs
    /\ \A a \in Addrs : txCount[a] \in Nat
    /\ \A p \in Procs : pc[p] \in {"new", "dead", "ready", "nonce", "send",
                                   "wait", "except", "read"}

\* ================================================================ claims
\* ---- C1 ----------------------------------------------------------------
\* C1: a client constructed with an address that is neither marked true in
\* authorizedLoggers nor equal to owner() fails construction (with the
\* unauthorized ValueError whenever the registry could be queried) and never
\* broadcasts a transaction.
C1_UnauthorizedNeverWrites ==
    \A p \in Procs :
        (pc[p] # "new" /\ ~authAtCtor[p]) =>
            /\ pc[p] = "dead"
            /\ outcome[p] \in {"ValueError", "ConnectionError"}
            /\ ~everBroadcast[p]
            /\ broadcasts[p] = 0

\* an unauthorized client was refused while another client was writing
C1_Witness ==
    \E p, q \in Procs :
        /\ pc[p] = "dead" /\ ~authAtCtor[p] /\ outcome[p] = "ValueError"
        /\ everBroadcast[q]

\* ---- C2 ----------------------------------------------------------------
\* C2 as stated: at the moment of broadcast the nonce is strictly greater
\* than every nonce confirmed for the identity (confirmed nonces are
\* 0 .. txCount-1, so the nonce is at least the confirmed count).
C2_FreshAtBroadcast ==
    \A p \in Procs : countAtSend[p] >= 0 => nonce[p] >= countAtSend[p]

\* C2 amended: the nonce a call broadcasts is strictly greater than every
\* nonce that was confirmed for the identity at the moment the call fetched
\* it.
C2_FreshAtFetch ==
    \A p \in Procs :
        (pc[p] \in {"send", "wait", "except"} /\ countAtFetch[p] >= 0) =>
            nonce[p] >= countAtFetch[p]

\* a call broadcast after the confirmed count had moved past its nonce
C2_Witness ==
    \E p \in Procs :
        /\ pc[p] = "except"
        /\ countAtFetch[p] >= 0
        /\ countAtSend[p] > countAtFetch[p]

\* ---- C3 ----------------------------------------------------------------
\* C3: a submission that starts after a submission of the same identity has
\* returned its hash uses a nonce strictly greater than that submission's
\* nonce (the nonce is read from the ledger by every call).
C3_SequentialNoncesIncrease ==
    \A p \in Procs : nonce[p] >= 0 => nonce[p] > prevOk[p]

\* the second of two sequential submissions has been confirmed too
C3_Witness ==
    \E p \in Procs :
        /\ pc[p] = "wait"
        /\ prevOk[p] >= 0
        /\ \E r \in receipts : r.tx = tx_hash[p] /\ r.status = 1

\* ---- C4 ----------------------------------------------------------------
\* C4: of the transactions of one identity carrying one nonce the ledger
\* includes at most one; a call returns a hash only for a transaction that
\* was included, so a call whose transaction was dropped in a collision ends
\* in an error raised at the broadcast or by the receipt wait, never in the
\* failed-transaction error, and it has broadcast once.
C4_CollisionLoserFails ==
    /\ \A r1, r2 \in receipts :
          (r1.tx.sender = r2.tx.sender /\ r1.tx.nonce = r2.tx.nonce) => r1 = r2
    /\ \A p \in Procs :
          /\ outcome[p] = "hash" =>
                \E r \in receipts : r.tx = tx_hash[p] /\ r.status = 1
          /\ \A q \in Procs \ {p} :
                (outcome[p] = "hash" /\ outcome[q] = "hash"
                   /\ address[p] = address[q]) =>
                    tx_hash[p].nonce # tx_hash[q].nonce
          /\ (pc[p] = "except" /\ broadcasts[p] > 0
                /\ ~(\E r \in receipts : r.tx = tx_hash[p])) =>
                exc[p] \in {"ValueError", "TimeExhausted", "ConnectionError"}
          /\ broadcasts[p] <= 1

\* two calls used one nonce: one transaction is included, the other call
\* waited for a receipt that never came
C4_Witness ==
    \E p \in Procs :
        /\ pc[p] = "except" /\ exc[p] = "TimeExhausted"
        /\ tx_hash[p] # NoTx
        /\ \E r \in receipts :
              /\ r.tx.sender = address[p]
              /\ r.tx.nonce = nonce[p]
              /\ r.tx # tx_hash[p]

\* ---- C5 ----------------------------------------------------------------
\* C5: once the receipt wait has timed out, the call broadcasts nothing more
\* and the next thing it does is hand the timeout error to its caller.
C5_TimeoutReportsOnly ==
    [][\A p \in Procs :
          (pc[p] = "except" /\ exc[p] = "TimeExhausted") =>
              /\ broadcasts'[p] <= broadcasts[p]
              /\ pc'[p] \in {"except", "ready"}
              /\ pc'[p] = "ready" => outcome'[p] = "TimeExhausted"]_vars

\* a call has reported the timeout to its caller
C5_Witness ==
    \E p \in Procs : pc[p] = "ready" /\ outcome[p] = "TimeExhausted"

\* ---- C6 ----------------------------------------------------------------
\* C6: a call has returned a hash exactly when it obtained a receipt with
\* status 1 for the transaction it sent; a receipt with status 0 ends the
\* call with the failed-transaction Exception.
C6_HashIffStatusOne ==
    \A p \in Procs :
        /\ outcome[p] = "hash" <=> receipt[p] = 1
        /\ receipt[p] = 1 =>
              \E r \in receipts : r.tx = tx_hash[p] /\ r.status = 1
        /\ receipt[p] = 0 => (pc[p] = "except" /\ exc[p] = "Exception")

\* one call returned a hash and another got a receipt with status 0
C6_Witness ==
    \E p, q \in Procs : outcome[p] = "hash" /\ receipt[q] = 0

\* ---- C7 ----------------------------------------------------------------
\* C7: a failure before the broadcast and a failure at or after it are never
\* reported with the same kind of error.
C7_PhaseTellsKind ==
    \A p, q \in Procs :
        (pc[p] = "except" /\ pc[q] = "except"
           /\ phase[p] = "pre" /\ phase[q] = "post") => exc[p] # exc[q]

\* ---- C8 ----------------------------------------------------------------
\* C8: when log_node_metrics has returned a hash and get_latest_node_metrics
\* of that node is answered while the record that call wrote is still the
\* node's latest, the returned nodeId, memoryUsage, cpuLoad, allocatedMemory
\* and status equal the submitted values.
C8_RoundTrip ==
    \A p \in Procs :
        (/\ pc[p] = "read"
         /\ readResult[p].op = "latest"
         /\ outcome[p] = "hash"
         /\ function[p].fn = "logNodeMetrics"
         /\ readResult[p].node = submitted[p].node_id
         /\ readResult[p].src = tx_hash[p]
         /\ readResult[p].ret.raised # "ConnectionError") =>
            /\ readResult[p].ret.raised = "none"
            /\ readResult[p].ret.nodeId = submitted[p].node_id
            /\ readResult[p].ret.memoryUsage = submitted[p].memory_usage
            /\ readResult[p].ret.cpuLoad = submitted[p].cpu_load
            /\ readResult[p].ret.allocatedMemory = submitted[p].allocated_memory
            /\ readResult[p].ret.status = submitted[p].status

\* a process read back the record of cpu load 100 it had just logged, after
\* an earlier record of the node
C8_Witness ==
    \E p \in Procs :
        /\ pc[p] = "read"
        /\ readResult[p].op = "latest"
        /\ outcome[p] = "hash"
        /\ function[p].fn = "logNodeMetrics"
        /\ readResult[p].src = tx_hash[p]
        /\ readResult[p].ret.raised = "none"
        /\ readResult[p].ret.cpuLoad = 100
        /\ readResult[p].held = 2

\* ---- C9 ----------------------------------------------------------------
\* C9: get_latest_node_metrics of a node that holds no record raises and
\* returns no record.
C9_LatestOfEmptyFails ==
    \A p \in Procs :
        (pc[p] = "read" /\ readResult[p].op = "latest"
           /\ readResult[p].held = 0) =>
            readResult[p].ret.raised # "none"

\* the contract answered the empty sentinel and the reader raised on it
C9_Witness ==
    \E p \in Procs :
        /\ pc[p] = "read" /\ readResult[p].op = "latest"
        /\ readResult[p].held = 0
        /\ readResult[p].ret.raised = "IndexError"

\* ---- C10 ---------------------------------------------------------------
\* C10: get_node_metrics_history(node, start, count), when the query is
\* answered, returns without raising one record per stored record from
\* start, at most count of them, in storage order; with 3 records stored,
\* start 0 and count 10 it returns exactly the 3.
HistoryExpectedLen(stored, start_index, count) ==
    IF start_index >= Len(stored) THEN 0
    ELSE Min(count, Len(stored) - start_index)

C10_HistoryOldestFirst ==
    \A p \in Procs :
        (pc[p] = "read" /\ readResult[p].op = "history"
           /\ readResult[p].ret.raised # "ConnectionError") =>
            LET r == readResult[p]
                n == HistoryExpectedLen(r.stored, r.start, r.count)
            IN /\ r.ret.raised = "none"
               /\ Len(r.ret.list) = n
               /\ \A i \in 1..n :
                     LET e == r.ret.list[i]
                         t == r.stored[r.start + i]
                     IN /\ e.nodeId = t[1]
                        /\ e.timestamp = t[2]
                        /\ e.memoryUsage = t[3]
                        /\ e.cpuLoad = t[4]
                        /\ e.allocatedMemory = t[5]
                        /\ e.status = StatusName(t[6])
                        /\ e.scaleAction = t[7]
               /\ (Len(r.stored) = 3 /\ r.start = 0 /\ r.count = 10) =>
                     Len(r.ret.list) = 3

\* history (node, 0, 10) was read from a node holding exactly 3 records
C10_Witness ==
    \E p \in Procs :
        /\ pc[p] = "read" /\ readResult[p].op = "history"
        /\ Len(readResult[p].stored) = 3
        /\ readResult[p].start = 0 /\ readResult[p].count = 10
        /\ readResult[p].ret.raised = "none"
        /\ Len(readResult[p].ret.list) = 3

\* ---- C11 ---------------------------------------------------------------
\* C11: the status enum round-trips.  Whatever NodeStatus member an earlier
\* log_node_metrics call encoded into the record a reader fetches (Normal,
\* Scaling or Alert, stored as 0, 1, 2), the reader decodes the stored
\* integer without raising and reports the name of that same member, both
\* in get_latest_node_metrics and in every entry of
\* get_node_metrics_history.
WrittenFrom(t) ==
    {m \in PriorArgs : StoredMetrics(LogNodeMetricsFunction(m).args, t[2]) = t}

C11_StatusRoundTrip ==
    \A p \in Procs :
      /\ (pc[p] = "read" /\ readResult[p].op = "latest"
             /\ readResult[p].held > 0
             /\ readResult[p].ret.raised # "ConnectionError")
          => LET t == nodeMetricsHistory[readResult[p].node][readResult[p].held]
             IN \A m \in WrittenFrom(t) :
                  /\ readResult[p].ret.raised = "none"
                  /\ readResult[p].ret.status = m.status
                  /\ StatusInt(readResult[p].ret.status) = t[6]
      /\ (pc[p] = "read" /\ readResult[p].op = "history"
             /\ readResult[p].ret.raised # "ConnectionError")
          => /\ readResult[p].ret.raised = "none"
             /\ \A i \in 1..Len(readResult[p].ret.list) :
                  LET t == readResult[p].stored[readResult[p].start + i]
                  IN \A m \in WrittenFrom(t) :
                       readResult[p].ret.list[i].status = m.status

\* a reader has decoded a record that was written with status Alert, and a
\* history read has returned entries of all three statuses
C11_Witness ==
    \E p, q \in Procs :
      /\ pc[p] = "read" /\ readResult[p].op = "latest"
      /\ readResult[p].ret.raised = "none"
      /\ readResult[p].ret.status = "Alert"
      /\ nodeMetricsHistory[readResult[p].node][readResult[p].held][6] = 2
      /\ pc[q] = "read" /\ readResult[q].op = "history"
      /\ readResult[q].ret.raised = "none"
      /\ {readResult[q].ret.list[i].status :
             i \in 1..Len(readResult[q].ret.list)} = StatusNames

\* ---- C12 ---------------------------------------------------------------
\* C12: when both queries of the construction-time check are answered, the
\* check passes (construction yields a client) if the address equals owner()
\* compared case-insensitively, even though authorizedLoggers(address) is
\* false; and it passes if authorizedLoggers(address) is true, whatever
\* owner() is.
C12_OwnerOrRegistryPasses ==
    [][\A p \in Procs :
         (pc[p] = "new" /\ pc'[p] # "new" /\ outcome'[p] # "ConnectionError")
         => /\ (Lower(address[p]) = Lower(owner)) => pc'[p] = "ready"
            /\ (address[p] \in authorizedLoggers) => pc'[p] = "ready"
            /\ pc'[p] = "ready" => outcome'[p] = "constructed"]_vars

\* a client was constructed for an address the registry does not mark,
\* which differs from owner() in letter case only
C12_Witness ==
    \E p \in Procs :
      /\ pc[p] = "ready" /\ outcome[p] = "constructed"
      /\ authorizedLoggers = {}
      /\ address[p] = <<"a", "B">> /\ owner = <<"A", "b">>

\* ---- C13 ---------------------------------------------------------------
\* C13: authorization is checked at construction only.  A write by a client
\* whose authorization was revoked after construction is still broadcast,
\* and when the contract rejects it the call reports the contract's
\* rejection (ContractReverted: web3's ContractLogicError, the class the
\* handler at lines 107-109 is written for), never a returned hash.
C13_RevokedWriteReportsReverted ==
    \A p \in Procs :
      (/\ authAtCtor[p] /\ everBroadcast[p]
       /\ tx_hash[p] # NoTx /\ Included(tx_hash[p])
       /\ StatusOf(tx_hash[p]) = 0 /\ receipt[p] = 0)
      => /\ outcome[p] # "hash"
         /\ pc[p] = "except" => exc[p] = "ContractLogicError"

\* ---- C14 ---------------------------------------------------------------
\* C14: a call of _send_transaction that fails while fetching the nonce, the
\* chain id or the gas price, or while building the transaction, has
\* broadcast nothing: no step of the call up to and including the failure
\* changes the ledger (pool, records, receipts, any identity's confirmed
\* count), and the failed call holds no transaction hash.
C14_EarlyFailureLeavesLedger ==
    [][\A p \in Procs :
         /\ (pc[p] \in {"nonce", "send"} /\ pc'[p] = "except"
                /\ phase'[p] = "pre")
            => /\ broadcasts'[p] = 0 /\ tx_hash'[p] = NoTx
               /\ UNCHANGED <<txCount, pool, receipts, nodeMetricsHistory,
                              scalingActions, lastWriteTx>>
         /\ ((pc[p] = "ready" /\ pc'[p] = "nonce")
                \/ (pc[p] = "nonce" /\ pc'[p] = "send"))
            => /\ broadcasts'[p] = 0 /\ tx_hash'[p] = NoTx
               /\ UNCHANGED <<txCount, pool, receipts, nodeMetricsHistory,
                              scalingActions, lastWriteTx>>]_vars

\* a call has failed while building, after its nonce was fetched, while
\* another call's transaction is pending on the ledger
C14_Witness ==
    \E p \in Procs :
      /\ pc[p] = "except" /\ phase[p] = "pre" /\ nonce[p] >= 0
      /\ broadcasts[p] = 0
      /\ pool # {}

\* ---- C15 ---------------------------------------------------------------
\* C15: every invocation of _send_transaction, reached through
\* log_node_metrics or log_scaling_action, broadcasts at most one
\* transaction whatever its outcome: the broadcasts of the call in progress
\* (or just returned) never exceed one, none is made before the nonce is
\* fetched, and the ledger never holds more transactions than calls were
\* started.
C15_AtMostOneBroadcast ==
    /\ \A p \in Procs :
         /\ broadcasts[p] <= 1
         /\ pc[p] \in {"nonce", "send"} => broadcasts[p] = 0
         /\ pc[p] = "wait" => broadcasts[p] = 1
    /\ Cardinality(pool \cup {r.tx : r \in receipts}) <= calls

\* a log_scaling_action call timed out and a log_node_metrics call returned
\* a hash, each after exactly one broadcast
C15_Witness ==
    \E p, q \in Procs :
      /\ pc[p] = "except" /\ exc[p] = "TimeExhausted"
      /\ function[p].fn = "logScalingAction" /\ broadcasts[p] = 1
      /\ pc[q] = "ready" /\ outcome[q] = "hash"
      /\ function[q].fn = "logNodeMetrics" /\ broadcasts[q] = 1

\* ---- C16 ---------------------------------------------------------------
\* C16: get_latest_node_metrics and get_node_metrics_history are pure
\* reads.  The step in which a reader queries the ledger, and the step in
\* which it hands its result or its exception to the caller, fetch no nonce,
\* sign and broadcast nothing, and leave the ledger's records, pool,
\* receipts and every identity's confirmed count, and the contract's
\* registry, as they were.
C16_ReadersArePure ==
    [][\A p \in Procs :
         ((pc[p] = "ready" /\ pc'[p] = "read")
            \/ (pc[p] = "read" /\ pc'[p] = "ready"))
         => UNCHANGED <<ledgerVars, contractVars, nonce, function, tx_hash,
                        countAtFetch, countAtSend, broadcasts,
                        everBroadcast, calls>>]_vars

\* one reader has failed (no record for the node) and another has returned
\* a non-empty history, against a ledger that holds records
C16_Witness ==
    \E p, q \in Procs :
      /\ pc[p] = "read" /\ readResult[p].op = "latest"
      /\ readResult[p].ret.raised = "IndexError"
      /\ pc[q] = "read" /\ readResult[q].op = "history"
      /\ readResult[q].ret.raised = "none"
      /\ Len(readResult[q].ret.list) >= 2
      /\ nodeMetricsHistory["n1"] # <<>>
      /\ nonce[p] = -1 /\ nonce[q] = -1 /\ pool = {}

\* ---- C17 ---------------------------------------------------------------
\* C17: once a write call has broadcast its transaction and waits for the
\* receipt, the call eventually ends: it returns the hash or reports a
\* failure to its caller, even when the ledger never includes the
\* transaction (the wait is bounded by a timeout).
C17_BroadcastCallEnds ==
    \A p \in Procs :
      (pc[p] = "wait")
        ~> (pc[p] = "ready"
              /\ outcome[p] \in {"hash", "Exception", "TimeExhausted",
                                 "ConnectionError"})

\* a call has ended with the timeout while its transaction is still pending
\* and in no block
C17_Witness ==
    \E p \in Procs :
      /\ pc[p] = "ready" /\ outcome[p] = "TimeExhausted"
      /\ pool # {} /\ receipts = {}
      /\ \A q \in Procs : pc[q] # "wait"

\* ---- C18 ---------------------------------------------------------------
\* C18: the nonce a call uses is the number of the identity's confirmed
\* transactions at the moment of the fetch; pending transactions are not
\* counted.  A call that fetches while an earlier transaction of the
\* identity is broadcast but not yet confirmed therefore gets the nonce of
\* that pending transaction, and the ledger never includes two transactions
\* of one identity with one nonce.
C18_PendingNotCounted ==
    [][/\ \A p \in Procs :
            (pc[p] = "nonce" /\ pc'[p] = "send")
            => /\ nonce'[p] = txCount[address[p]]
               /\ \A t \in pool :
                     t.sender = address[p] => nonce'[p] = t.nonce
       /\ \A r1, r2 \in receipts' :
            (r1.tx.sender = r2.tx.sender /\ r1.tx.nonce = r2.tx.nonce)
            => r1.tx = r2.tx]_vars

\* a retry after a timeout: the only client that was ever constructed has
\* fetched a nonce for its second call while the transaction of its first
\* call is still pending with that same nonce
C18_Witness ==
    \E p \in Procs :
      /\ pc[p] = "send" /\ calls = 2
      /\ \A q \in Procs \ {p} : pc[q] \in {"new", "dead"}
      /\ \E t \in pool : t.sender = address[p] /\ t.nonce = nonce[p]

\* ---- C19 ---------------------------------------------------------------
\* C19: the gate fails closed.  When the authorizedLoggers query or the
\* owner query itself fails, construction fails and no client is produced;
\* a client exists only after a check that completed and passed, and a
\* process whose construction failed never has a client, so it never
\* starts a call.
C19_GateFailsClosed ==
    [][\A p \in Procs :
         /\ (pc[p] = "new" /\ pc'[p] # "new")
            => /\ outcome'[p] = "ConnectionError" => pc'[p] = "dead"
               /\ pc'[p] = "ready"
                    => (outcome'[p] = "constructed" /\ authAtCtor'[p])
               /\ pc'[p] \in {"ready", "dead"}
         /\ pc[p] = "dead"
            => (pc'[p] = "dead" /\ UNCHANGED <<nonce[p], tx_hash[p],
                                               broadcasts[p]>>)]_vars

\* the construction of a client for an authorized address failed because a
\* query failed, while another client of the same address was constructed
C19_Witness ==
    \E p, q \in Procs :
      /\ pc[p] = "dead" /\ outcome[p] = "ConnectionError"
      /\ authAtCtor[p] /\ ~everBroadcast[p]
      /\ address[q] = address[p] /\ pc[q] = "wait"
====
